---- MODULE Spec2Model ----
(***************************************************************************)
(* Transreal arithmetic of transmaths.py (class Transreal).                *)
(*                                                                         *)
(* A Python object is a record [tag, numerator, denominator, approximate]: *)
(* tag "Transreal" for an instance of the class, "int" / "bool" / "str" /  *)
(* "None" for the built-in operands the code meets, an exception name for  *)
(* a raised exception, "OutOfRange" for an integer beyond the range the    *)
(* model computes in (Python integers are unbounded, TLC's are 32 bit),    *)
(* and "Diverged" for a Newton loop that did not stop within MaxIter.      *)
(*                                                                         *)
(* The operators are the methods of the class, computed as the code        *)
(* computes them.  The state machine is a two-register calculator: x and y *)
(* hold Transreal values, every method of the class is an action that      *)
(* leaves its result in res, and Store feeds the result back into x, so    *)
(* the reachable register values are the values any sequence of            *)
(* constructor calls and operations produces (within MaxMag).              *)
(***************************************************************************)
EXTENDS Integers, Sequences, FiniteSets, TLC

\* ------------------------------------------------------------------ bounds

\* constructor arguments of the Make action range over -MaxInt..MaxInt
MaxInt == 3
\* a result is stored in a register only if |numerator|, denominator <= MaxMag
MaxMag == 4
\* integers are computed exactly while their magnitude is at most IntLimit
IntLimit == 30000
\* iterations of the Newton loop that are followed; every root of register
\* values that is computed within IntLimit stops in fewer
MaxIter == 6
\* round is called with 0..MaxPlaces decimal places
MaxPlaces == 2

\* root(): PRECISION (the source sets 9; the solver is evaluated at one
\* decimal place, 10**(2*9) being beyond TLC's integers)
PRECISION == 1

\* ------------------------------------------------------------------ objects

Obj(t, n, d, a) == [tag |-> t, numerator |-> n, denominator |-> d, approximate |-> a]

\* an instance of class Transreal with the given fields
T(n, d, a) == Obj("Transreal", n, d, a)

\* a Python int (int.numerator is the int itself, int.denominator is 1)
IntV(v) == Obj("int", v, 1, FALSE)

\* a Python bool, the result of a comparison
BoolV(b) == Obj("bool", IF b THEN 1 ELSE 0, 1, FALSE)

\* a Python float with the exact value n/d in lowest terms, d a power of
\* two: n/0 is float("inf") or float("-inf") by the sign of n and 0/0 is
\* float("nan"); inexact marks a float that was rounded
FloatV(n, d, inexact) == Obj("float", n, d, inexact)

\* a Python str operand and the None default of pow's modulo
StrV == Obj("str", 0, 0, FALSE)
NoneV == Obj("None", 0, 0, FALSE)

\* a Python tuple of two objects, the result of divmod
Tuple(a, b) == [tag |-> "tuple", numerator |-> 0, denominator |-> 0, approximate |-> FALSE,
                first |-> a, second |-> b]

\* a raised exception
Raise(kind) == Obj(kind, 0, 0, FALSE)

OutOfRange == Obj("OutOfRange", 0, 0, FALSE)
Diverged == Obj("Diverged", 0, 0, FALSE)

Exceptions == {"TypeError", "AttributeError", "ZeroDivisionError", "ValueError"}

\* an evaluation that produced no object: it raised, left the range or hung
IsFailure(v) == v.tag \in Exceptions \cup {"OutOfRange", "Diverged"}

IsT(v) == v.tag = "Transreal"

\* isinstance(v, int): bool is a subclass of int
IsInt(v) == v.tag \in {"int", "bool"}

\* isinstance(v, float)
IsFloat(v) == v.tag = "float"

\* truth of a comparison result used as a condition
IsTrue(v) == v.tag = "bool" /\ v.numerator = 1

\* ------------------------------------------------------------------ integers

iabs(n) == IF n < 0 THEN -n ELSE n

InRange(n) == iabs(n) <= IntLimit

\* the sign of an integer
sgn(n) == IF n > 0 THEN 1 ELSE IF n < 0 THEN -1 ELSE 0

\* math.gcd: the greatest common divisor of |a| and |b|, gcd(0, 0) = 0
RECURSIVE euclid(_, _)
euclid(a, b) == IF b = 0 THEN a ELSE euclid(b, a % b)

gcd(a, b) == euclid(iabs(a), iabs(b))

\* Python's int ** int for an exponent >= 0; the product stops growing once
\* it has left the range
RECURSIVE ipow(_, _)
ipow(b, e) ==
    IF e = 0 THEN 1
    ELSE LET r == ipow(b, e - 1)
         IN  IF InRange(r) THEN b * r ELSE r

\* Python's int % int for a divisor other than 0: the sign of the divisor
pymod(a, b) == IF b > 0 THEN a % b ELSE -((-a) % (-b))

\* Python's int // int for a divisor other than 0: floor
pyfloordiv(a, b) == IF b > 0 THEN a \div b ELSE (-a) \div (-b)

\* ------------------------------------------------------------------ construction

\* mutant: the constructor without lines 52-54, a negative denominator
\* is stored as given
TransrealInt_unsigned(numerator, denominator, approximate) ==
    LET common_factor == gcd(numerator, denominator)
        n2 == IF common_factor > 1 THEN numerator \div common_factor ELSE numerator
        d2 == IF common_factor > 1 THEN denominator \div common_factor ELSE denominator
    IN  IF ~(InRange(n2) /\ InRange(d2)) THEN OutOfRange
        ELSE T(n2, d2, IF d2 = 0 THEN FALSE ELSE approximate)

\* mutant: the constructor without lines 57-60, the fraction is not reduced
TransrealInt_unreduced(numerator, denominator, approximate) ==
    LET n1 == IF denominator < 0 THEN numerator * (-1) ELSE numerator
        d1 == IF denominator < 0 THEN denominator * (-1) ELSE denominator
    IN  IF ~(InRange(n1) /\ InRange(d1)) THEN OutOfRange
        ELSE T(n1, d1, IF d1 = 0 THEN FALSE ELSE approximate)

\* Transreal.__init__ with int numerator and denominator (lines 51-70)
TransrealInt(numerator, denominator, approximate) ==
    LET n1 == IF denominator < 0 THEN numerator * (-1) ELSE numerator
        d1 == IF denominator < 0 THEN denominator * (-1) ELSE denominator
        common_factor == gcd(n1, d1)
        n2 == IF common_factor > 1 THEN n1 \div common_factor ELSE n1
        d2 == IF common_factor > 1 THEN d1 \div common_factor ELSE d1
    IN  IF ~(InRange(n2) /\ InRange(d2)) THEN OutOfRange
        ELSE T(n2, d2, IF d2 = 0 THEN FALSE ELSE approximate)

INFINITY == TransrealInt(1, 0, FALSE)
NULLITY == TransrealInt(0, 0, FALSE)

\* Transreal(other): the constructor with the default denominator 1 and
\* approximate False, as every operator calls it on its operand
coerce(other) ==
    IF IsFailure(other) THEN other
    ELSE IF IsT(other) THEN T(other.numerator, other.denominator, other.approximate)
    ELSE IF IsInt(other) THEN TransrealInt(other.numerator, 1, FALSE)
    ELSE IF IsFloat(other)
    THEN IF other.denominator # 0 \/ other.numerator # 0
         THEN T(other.numerator, other.denominator, FALSE)
         ELSE Raise("ValueError")
    ELSE Raise("TypeError")

\* ------------------------------------------------------------------ comparison

\* Every method that coerces its operand is written in two parts, the
\* coercion `other = Transreal(other)` and the body on the coerced operand.

\* Transreal.__eq__ after the coercion; NotImplemented from both sides makes
\* == False
eq_body(self, o) ==
    IF IsFailure(self) THEN self
    ELSE IF o.tag = "TypeError" THEN BoolV(FALSE)
    ELSE IF IsFailure(o) THEN o
    ELSE BoolV(self.numerator = o.numerator /\ self.denominator = o.denominator)

\* Transreal.__eq__
eq(self, other) == eq_body(self, coerce(other))

\* Transreal.__ne__: not self == other
ne_body(e) == IF IsFailure(e) THEN e ELSE BoolV(~IsTrue(e))

ne(self, other) == ne_body(eq(self, other))

\* mutant: __gt__ without the equal-denominator case of lines 148-149, the
\* numerators are always cross-multiplied
gt_body_cross(self, o) ==
    IF IsFailure(self) THEN self
    ELSE IF IsFailure(o) THEN o
    ELSE IF IsTrue(eq(self, NULLITY)) \/ IsTrue(eq(o, NULLITY)) THEN BoolV(FALSE)
    ELSE BoolV(self.numerator * o.denominator > o.numerator * self.denominator)

\* Transreal.__gt__ after the coercion
gt_body(self, o) ==
    IF IsFailure(self) THEN self
    ELSE IF IsFailure(o) THEN o
    ELSE IF IsTrue(eq(self, NULLITY)) \/ IsTrue(eq(o, NULLITY)) THEN BoolV(FALSE)
    ELSE IF self.denominator = o.denominator
         THEN BoolV(self.numerator > o.numerator)
    ELSE BoolV(self.numerator * o.denominator > o.numerator * self.denominator)

\* Transreal.__gt__
gt(self, other) == gt_body(self, coerce(other))

\* mutant: __lt__ without the equal-denominator case of lines 206-207, the
\* numerators are always cross-multiplied
lt_body_cross(self, o) ==
    IF IsFailure(self) THEN self
    ELSE IF IsFailure(o) THEN o
    ELSE IF IsTrue(eq(self, NULLITY)) \/ IsTrue(eq(o, NULLITY)) THEN BoolV(FALSE)
    ELSE BoolV(self.numerator * o.denominator < o.numerator * self.denominator)

\* Transreal.__lt__ after the coercion
lt_body(self, o) ==
    IF IsFailure(self) THEN self
    ELSE IF IsFailure(o) THEN o
    ELSE IF IsTrue(eq(self, NULLITY)) \/ IsTrue(eq(o, NULLITY)) THEN BoolV(FALSE)
    ELSE IF self.denominator = o.denominator
         THEN BoolV(self.numerator < o.numerator)
    ELSE BoolV(self.numerator * o.denominator < o.numerator * self.denominator)

\* Transreal.__lt__
lt(self, other) == lt_body(self, coerce(other))

\* Python's `a or b` on the outcome a of the first comparison
or_else(first, second) ==
    IF IsFailure(first) THEN first
    ELSE IF IsTrue(first) THEN first
    ELSE second

\* mutant: __ge__ as not self < other
ge_not_lt(self, other) == ne_body(lt(self, other))

\* Transreal.__ge__: self > other or self == other
ge(self, other) == or_else(gt(self, other), eq(self, other))

\* Transreal.__le__: self < other or self == other
le(self, other) == or_else(lt(self, other), eq(self, other))

\* ------------------------------------------------------------------ arithmetic

\* mutant: __add__ whose cross-multiplication (line 99) leaves out the
\* factor self.denominator
add_body_cross(self, o) ==
    IF IsFailure(self) THEN self
    ELSE IF IsFailure(o) THEN o
    ELSE IF IsTrue(eq(self, NULLITY)) \/ IsTrue(eq(o, NULLITY)) THEN NULLITY
    ELSE IF self.denominator = o.denominator
         THEN TransrealInt(self.numerator + o.numerator,
                           self.denominator,
                           self.approximate \/ o.approximate)
    ELSE TransrealInt((self.numerator * o.denominator) + o.numerator,
                      self.denominator * o.denominator,
                      self.approximate \/ o.approximate)

\* mutant: __add__ whose test of line 88 looks at self alone
add_body_self(self, o) ==
    IF IsFailure(self) THEN self
    ELSE IF IsFailure(o) THEN o
    ELSE IF IsTrue(eq(self, NULLITY)) THEN NULLITY
    ELSE IF self.denominator = o.denominator
         THEN TransrealInt(self.numerator + o.numerator,
                           self.denominator,
                           self.approximate \/ o.approximate)
    ELSE TransrealInt((self.numerator * o.denominator) + (o.numerator * self.denominator),
                      self.denominator * o.denominator,
                      self.approximate \/ o.approximate)

\* Transreal.__add__ after the coercion
add_body(self, o) ==
    IF IsFailure(self) THEN self
    ELSE IF IsFailure(o) THEN o
    ELSE IF IsTrue(eq(self, NULLITY)) \/ IsTrue(eq(o, NULLITY)) THEN NULLITY
    ELSE IF self.denominator = o.denominator
         THEN TransrealInt(self.numerator + o.numerator,
                           self.denominator,
                           self.approximate \/ o.approximate)
    ELSE TransrealInt((self.numerator * o.denominator) + (o.numerator * self.denominator),
                      self.denominator * o.denominator,
                      self.approximate \/ o.approximate)

\* Transreal.__add__
add(self, other) == add_body(self, coerce(other))

\* Transreal.__mul__ after the coercion
mul_body(self, o) ==
    IF IsFailure(self) THEN self
    ELSE IF IsFailure(o) THEN o
    ELSE TransrealInt(self.numerator * o.numerator,
                      self.denominator * o.denominator,
                      self.approximate \/ o.approximate)

\* Transreal.__mul__
mul(self, other) == mul_body(self, coerce(other))

\* Transreal.__neg__
neg(self) == mul(self, IntV(-1))

\* Transreal.__abs__
abs(self) ==
    IF IsFailure(self) THEN self
    ELSE IF self.numerator < 0 THEN neg(self) ELSE self

\* mutant: __sub__ that answers 0 for equal operands without adding
sub_body_equal(self, o) ==
    IF IsFailure(self) THEN self
    ELSE IF IsFailure(o) THEN o
    ELSE IF IsTrue(eq(self, o)) /\ ~IsTrue(eq(self, NULLITY)) THEN TransrealInt(0, 1, FALSE)
    ELSE add(self, mul(o, IntV(-1)))

\* Transreal.__sub__ after the coercion
sub_body(self, o) ==
    IF IsFailure(self) THEN self
    ELSE IF IsFailure(o) THEN o
    ELSE add(self, mul(o, IntV(-1)))

\* Transreal.__sub__
sub(self, other) == sub_body(self, coerce(other))

\* mutant: floor without the test for a denominator of 0, so that the
\* floor of a non-finite value divides by zero
floor_unguarded(self) ==
    IF IsFailure(self) THEN self
    ELSE IF ~IsT(self) THEN Raise("AttributeError")
    ELSE IF self.denominator = 1 THEN self
    ELSE IF self.denominator = 0 THEN Raise("ZeroDivisionError")
    ELSE TransrealInt(pyfloordiv(self.numerator, self.denominator), 1, self.approximate)

\* mutant: floor that truncates toward zero
floor_truncated(self) ==
    IF IsFailure(self) THEN self
    ELSE IF ~IsT(self) THEN Raise("AttributeError")
    ELSE IF self.denominator = 0 \/ self.denominator = 1 THEN self
    ELSE TransrealInt(sgn(self.numerator) * (iabs(self.numerator) \div self.denominator),
                      1, self.approximate)

\* Transreal.floor
floor(self) ==
    IF IsFailure(self) THEN self
    ELSE IF ~IsT(self) THEN Raise("AttributeError")
    ELSE IF self.denominator = 0 \/ self.denominator = 1 THEN self
    ELSE TransrealInt(pyfloordiv(self.numerator, self.denominator), 1, self.approximate)

\* mutant: sign testing self >= 0 where line 477 tests self > 0
sign_nonstrict(self) ==
    IF IsFailure(self) THEN self
    ELSE IF ~IsT(self) THEN Raise("AttributeError")
    ELSE IF IsTrue(ge(self, IntV(0))) THEN TransrealInt(1, 1, FALSE)
    ELSE IF IsTrue(lt(self, IntV(0))) THEN TransrealInt(-1, 1, FALSE)
    ELSE NULLITY

\* mutant: sign without the test self == 0 of lines 479-480
sign_threeway(self) ==
    IF IsFailure(self) THEN self
    ELSE IF ~IsT(self) THEN Raise("AttributeError")
    ELSE IF IsTrue(gt(self, IntV(0))) THEN TransrealInt(1, 1, FALSE)
    ELSE IF IsTrue(lt(self, IntV(0))) THEN TransrealInt(-1, 1, FALSE)
    ELSE NULLITY

\* Transreal.sign
sign(self) ==
    IF IsFailure(self) THEN self
    ELSE IF ~IsT(self) THEN Raise("AttributeError")
    ELSE IF IsTrue(gt(self, IntV(0))) THEN TransrealInt(1, 1, FALSE)
    ELSE IF IsTrue(eq(self, IntV(0))) THEN TransrealInt(0, 1, FALSE)
    ELSE IF IsTrue(lt(self, IntV(0))) THEN TransrealInt(-1, 1, FALSE)
    ELSE NULLITY

RECURSIVE pow(_, _)
RECURSIVE root(_, _)

\* Transreal.__truediv__ after the coercion
truediv_body(self, o) ==
    IF IsFailure(self) THEN self
    ELSE IF IsFailure(o) THEN o
    ELSE mul(self, pow(o, IntV(-1)))

\* Transreal.__truediv__
truediv(self, other) == truediv_body(self, coerce(other))

\* Transreal.__floordiv__ after the coercion
floordiv_body(self, o) ==
    IF IsFailure(self) THEN self
    ELSE IF IsFailure(o) THEN o
    ELSE floor(truediv(self, o))

\* Transreal.__floordiv__
floordiv(self, other) == floordiv_body(self, coerce(other))

\* Transreal.__mod__ after the coercion
mod_body(self, o) ==
    IF IsFailure(self) THEN self
    ELSE IF IsFailure(o) THEN o
    ELSE sub(self, mul(o, floordiv(self, o)))

\* Transreal.__mod__
mod(self, other) == mod_body(self, coerce(other))

\* Transreal.round; decimal_places is a Python int >= 0
round(self, decimal_places) ==
    IF IsFailure(self) THEN self
    ELSE IF ~IsT(self) THEN Raise("AttributeError")
    ELSE truediv(floor(mul(self, IntV(ipow(10, decimal_places)))),
                 IntV(ipow(10, decimal_places)))

\* The binary operators as Python dispatches them on the left operand: a
\* Transreal's own method, else the right operand's reflected method
\* (__rsub__, __rmul__ = __mul__, __rmod__), else int arithmetic.
OpSub(a, b) ==
    IF IsFailure(a) THEN a
    ELSE IF IsFailure(b) THEN b
    ELSE IF IsT(a) THEN sub(a, b)
    ELSE IF IsT(b) THEN sub(coerce(a), b)
    ELSE IF IsInt(a) /\ IsInt(b) THEN IntV(a.numerator - b.numerator)
    ELSE Raise("TypeError")

OpMul(a, b) ==
    IF IsFailure(a) THEN a
    ELSE IF IsFailure(b) THEN b
    ELSE IF IsT(a) THEN mul(a, b)
    ELSE IF IsT(b) THEN mul(b, a)
    ELSE IF IsInt(a) /\ IsInt(b) THEN IntV(a.numerator * b.numerator)
    ELSE Raise("TypeError")

OpMod(a, b) ==
    IF IsFailure(a) THEN a
    ELSE IF IsFailure(b) THEN b
    ELSE IF IsT(a) THEN mod(a, b)
    ELSE IF IsT(b) THEN mod(coerce(a), b)
    ELSE IF IsInt(a) /\ IsInt(b)
         THEN IF b.numerator = 0 THEN Raise("ZeroDivisionError")
              ELSE IntV(pymod(a.numerator, b.numerator))
    ELSE Raise("TypeError")

\* a == b with an int or a Transreal on the left
OpEq(a, b) ==
    IF IsFailure(a) THEN a
    ELSE IF IsFailure(b) THEN b
    ELSE IF IsT(a) THEN eq(a, b)
    ELSE IF IsT(b) THEN eq(b, a)
    ELSE IF (IsInt(a) \/ IsFloat(a)) /\ (IsInt(b) \/ IsFloat(b))
    THEN BoolV(/\ a.numerator = b.numerator /\ a.denominator = b.denominator
               /\ (a.numerator # 0 \/ a.denominator # 0))
    ELSE BoolV(a.tag = b.tag /\ a.numerator = b.numerator)

\* mutant: lines 261-303 with 1 where line 284 has NULLITY, as the comment
\* of line 282 has it
pow_raised_one(self, power) ==
    IF IsFailure(self) THEN self
    ELSE IF IsFailure(power) THEN power
    ELSE IF IsTrue(eq(power, IntV(0)))
    THEN IF IsTrue(eq(self, IntV(0))) \/ IsTrue(eq(self, NULLITY))
         THEN NULLITY
         ELSE IntV(1)
    ELSE IF IsTrue(lt(power, IntV(1)))
    THEN root(pow(self, IntV(power.numerator)), IntV(power.denominator))
    ELSE IF IsTrue(eq(power, IntV(1))) THEN self
    ELSE IF IsTrue(eq(power, NULLITY)) THEN NULLITY
    ELSE IF IsTrue(eq(power, INFINITY))
    THEN IF IsTrue(lt(abs(self), IntV(1))) THEN IntV(0)
         ELSE IF IsTrue(eq(abs(self), IntV(1))) THEN IntV(1)
         ELSE INFINITY
    ELSE IF power.denominator = 1
    THEN IF InRange(ipow(self.numerator, power.numerator))
            /\ InRange(ipow(self.denominator, power.numerator))
         THEN TransrealInt(ipow(self.numerator, power.numerator),
                           ipow(self.denominator, power.numerator),
                           self.approximate \/ power.approximate)
         ELSE OutOfRange
    ELSE OpMul(pow(self, IntV(pyfloordiv(power.numerator, power.denominator))),
               pow(self, TransrealInt(pymod(power.numerator, power.denominator),
                                      power.denominator, power.approximate)))

\* Transreal.__pow__, lines 261-303: the value of raised for the base self
\* and a power that is not negative
pow_raised(self, power) ==
    IF IsFailure(self) THEN self
    ELSE IF IsFailure(power) THEN power
    ELSE IF IsTrue(eq(power, IntV(0)))
    THEN IF IsTrue(eq(self, IntV(0))) \/ IsTrue(eq(self, NULLITY))
         THEN NULLITY
         ELSE IntV(1)
    ELSE IF IsTrue(lt(power, IntV(1)))
    THEN root(pow(self, IntV(power.numerator)), IntV(power.denominator))
    ELSE IF IsTrue(eq(power, IntV(1))) THEN self
    ELSE IF IsTrue(eq(power, NULLITY)) THEN NULLITY
    ELSE IF IsTrue(eq(power, INFINITY))
    THEN IF IsTrue(lt(abs(self), IntV(1))) THEN IntV(0)
         ELSE IF IsTrue(eq(abs(self), IntV(1))) THEN NULLITY
         ELSE INFINITY
    ELSE IF power.denominator = 1
    THEN IF InRange(ipow(self.numerator, power.numerator))
            /\ InRange(ipow(self.denominator, power.numerator))
         THEN TransrealInt(ipow(self.numerator, power.numerator),
                           ipow(self.denominator, power.numerator),
                           self.approximate \/ power.approximate)
         ELSE OutOfRange
    ELSE OpMul(pow(self, IntV(pyfloordiv(power.numerator, power.denominator))),
               pow(self, TransrealInt(pymod(power.numerator, power.denominator),
                                      power.denominator, power.approximate)))

\* mutant: __pow__ without line 258, a negative power is made positive and
\* the fraction is left as it is
pow_body_uninverted(self, power) ==
    IF IsFailure(self) THEN self
    ELSE IF IsFailure(power) THEN power
    ELSE IF IsTrue(lt(power, IntV(0)))
    THEN pow_raised(self, mul(power, IntV(-1)))
    ELSE pow_raised(self, power)

\* Transreal.__pow__, lines 256-259: a negative power inverts the fraction
pow_body(self, power) ==
    IF IsFailure(self) THEN self
    ELSE IF IsFailure(power) THEN power
    ELSE IF IsTrue(lt(power, IntV(0)))
    THEN pow_raised(TransrealInt(self.denominator, self.numerator, self.approximate),
                    mul(power, IntV(-1)))
    ELSE pow_raised(self, power)

\* Transreal.__pow__ without a modulo: the operator **
pow(self, power) == pow_body(self, coerce(power))

\* Transreal.root, lines 456-458: the while loop, and the guess it ends with
RECURSIVE newton(_, _, _, _, _)

\* the body of the loop: the next guess from the rounded one
newton_step(self, power, prev_guess, fuel) ==
    newton(self, power, prev_guess,
           sub(prev_guess,
               truediv(OpSub(pow(prev_guess, power), self),
                       mul(power, pow(prev_guess, sub(power, IntV(1)))))),
           fuel - 1)

\* the test of the loop on diff = abs(guess - prev_guess)
newton_test(self, power, guess, diff, fuel) ==
    IF IsFailure(diff) THEN diff
    ELSE IF ~IsTrue(lt(TransrealInt(1, ipow(10, PRECISION), FALSE), diff)) THEN guess
    ELSE IF fuel = 0 THEN Diverged
    ELSE newton_step(self, power, round(guess, PRECISION * 2), fuel)

newton(self, power, prev_guess, guess, fuel) ==
    newton_test(self, power, guess, abs(sub(guess, prev_guess)), fuel)

\* mutant: lines 462-466 clearing the flag of a result that reproduces self
root_flag_cleared(result, again) ==
    IF IsFailure(again) THEN again
    ELSE IF IsTrue(again) THEN [result EXCEPT !.approximate = FALSE]
    ELSE [result EXCEPT !.approximate = TRUE]

\* Transreal.root, lines 462-466: the flag is set on the result itself
root_flag(result, again) ==
    IF IsFailure(again) THEN again
    ELSE IF IsTrue(again) THEN result
    ELSE [result EXCEPT !.approximate = TRUE]

\* Transreal.root, lines 460-462
root_result(self, power, result) ==
    IF IsFailure(result) THEN result
    ELSE root_flag(result, OpEq(pow(result, power), self))

\* mutant: root without the test power < 0 of lines 441-442
root_body_unsigned(self, power) ==
    IF IsFailure(self) THEN self
    ELSE IF ~IsT(self) THEN Raise("AttributeError")
    ELSE IF IsFailure(power) THEN power
    ELSE IF IsTrue(lt(self, IntV(0))) THEN NULLITY
    ELSE IF IsTrue(eq(self, NULLITY)) \/ IsTrue(eq(power, NULLITY)) THEN NULLITY
    ELSE IF IsTrue(eq(self, INFINITY))
    THEN IF IsTrue(eq(abs(power), INFINITY)) THEN NULLITY
         ELSE INFINITY
    ELSE IF IsTrue(eq(abs(power), INFINITY)) THEN IntV(0)
    ELSE root_result(self, power,
                     round(newton(self, power, TransrealInt(0, 1, FALSE),
                                  TransrealInt(1, 1, FALSE), MaxIter),
                           PRECISION))

\* Transreal.root after the coercion of power
root_body(self, power) ==
    IF IsFailure(self) THEN self
    ELSE IF ~IsT(self) THEN Raise("AttributeError")
    ELSE IF IsFailure(power) THEN power
    ELSE IF IsTrue(lt(self, IntV(0))) THEN NULLITY
    ELSE IF IsTrue(eq(self, NULLITY)) \/ IsTrue(eq(power, NULLITY)) THEN NULLITY
    ELSE IF IsTrue(eq(self, INFINITY))
    THEN IF IsTrue(eq(abs(power), INFINITY)) THEN NULLITY
         ELSE IF IsTrue(lt(power, IntV(0))) THEN neg(INFINITY)
         ELSE INFINITY
    ELSE IF IsTrue(eq(abs(power), INFINITY)) THEN IntV(0)
    ELSE root_result(self, power,
                     round(newton(self, power, TransrealInt(0, 1, FALSE),
                                  TransrealInt(1, 1, FALSE), MaxIter),
                           PRECISION))

\* Transreal.root
root(self, power) == root_body(self, coerce(power))

\* Transreal.__divmod__, line 108: the tuple of the two results
divmod_pair(floordiv_, mod_) ==
    IF IsFailure(floordiv_) THEN floordiv_
    ELSE IF IsFailure(mod_) THEN mod_
    ELSE Tuple(floordiv_, mod_)

\* Transreal.__divmod__, line 107, on the quotient of line 106
divmod_body(self, other, floordiv_) ==
    divmod_pair(floordiv_, OpSub(self, OpMul(other, floordiv_)))

\* Transreal.__divmod__
divmod(self, other) == divmod_body(self, other, floordiv(self, other))

\* The reflected methods, which Python calls on the right operand self when
\* the left operand other is an int (int's own method returns
\* NotImplemented for a Transreal).  Each coerces other and applies the
\* operator with the operands in their written order.

\* __radd__ = __add__
radd(self, other) == add(self, other)

\* __rmul__ = __mul__
rmul(self, other) == mul(self, other)

\* Transreal.__rsub__
rsub(self, other) == sub(coerce(other), self)

\* Transreal.__rtruediv__
rtruediv(self, other) == truediv(coerce(other), self)

\* Transreal.__rmod__
rmod(self, other) == mod(coerce(other), self)

\* Transreal.__rpow__
rpow(self, other) == pow(coerce(other), self)

\* Transreal.__rdivmod__
rdivmod(self, other) == divmod(coerce(other), self)

\* other // self: the class defines no __rfloordiv__, so Python finds no
\* method for the operands and raises TypeError
rfloordiv(self, other) == Raise("TypeError")

\* a op b where one operand is a Transreal and the other any object: the
\* method of a Transreal on the left, else the reflected method of the
\* Transreal on the right (for a < b that is b > a).  A method that returns
\* NotImplemented leaves Python with no method to call, a TypeError.
OpAdd(a, b) == IF IsT(a) THEN add(a, b) ELSE radd(b, a)
OpTrueDiv(a, b) == IF IsT(a) THEN truediv(a, b) ELSE rtruediv(b, a)
OpFloorDiv(a, b) == IF IsT(a) THEN floordiv(a, b) ELSE rfloordiv(b, a)
OpPow(a, b) == IF IsT(a) THEN pow(a, b) ELSE rpow(b, a)
OpDivmod(a, b) == IF IsT(a) THEN divmod(a, b) ELSE rdivmod(b, a)
OpLt(a, b) == IF IsT(a) THEN lt(a, b) ELSE gt(b, a)
OpGt(a, b) == IF IsT(a) THEN gt(a, b) ELSE lt(b, a)

\* Transreal.__init__, lines 18-25: the fields of result = numerator /
\* denominator are stored as they are
init_quotient(result, infinite, nullity) ==
    IF IsFailure(result) THEN result
    ELSE IF IsFailure(infinite) THEN infinite
    ELSE IF IsFailure(nullity) THEN nullity
    ELSE T(result.numerator, result.denominator,
           IF IsTrue(infinite) \/ IsTrue(nullity) THEN FALSE ELSE result.approximate)

\* lines 18-25 on the quotient
init_divided(result) ==
    init_quotient(result, OpEq(abs(result), INFINITY), OpEq(result, NULLITY))

\* Transreal.__init__, lines 12-25: numerator or denominator is a Transreal
init_transreal(numerator, denominator) ==
    IF IsTrue(OpEq(denominator, IntV(1)))
    THEN IF IsT(numerator)
         THEN T(numerator.numerator, numerator.denominator, numerator.approximate)
         ELSE Raise("AttributeError")
    ELSE CHOOSE stored \in {init_divided(result) :
                            result \in {OpTrueDiv(numerator, denominator)}} : TRUE

\* mutant: __init__ without the test of the denominator's type (lines 27-28)
Transreal_untyped(numerator, denominator, approximate) ==
    IF IsT(numerator) \/ IsT(denominator) THEN init_transreal(numerator, denominator)
    ELSE IF ~IsInt(numerator)
    THEN IF IsFloat(numerator) THEN coerce(numerator) ELSE Raise("TypeError")
    ELSE TransrealInt(numerator.numerator, denominator.numerator, approximate)

\* Transreal.__init__ on any two objects and a bool
Transreal(numerator, denominator, approximate) ==
    IF IsT(numerator) \/ IsT(denominator) THEN init_transreal(numerator, denominator)
    ELSE IF ~IsInt(denominator) THEN Raise("TypeError")
    ELSE IF ~IsInt(numerator)
    THEN IF IsFloat(numerator) THEN coerce(numerator) ELSE Raise("TypeError")
    ELSE TransrealInt(numerator.numerator, denominator.numerator, approximate)

\* Transreal.__int__
int(self) ==
    IF self.denominator = 0 THEN Raise("ZeroDivisionError")
    ELSE IntV(pyfloordiv(self.numerator, self.denominator))

\* d is a power of two
RECURSIVE IsPowerOfTwo(_)
IsPowerOfTwo(d) == d = 1 \/ (d > 1 /\ d % 2 = 0 /\ IsPowerOfTwo(d \div 2))

\* Transreal.__float__: int / int, the nearest float, exact when the
\* denominator is a power of two (the integers of the model being small)
float(self) ==
    IF self.denominator = 0 THEN Raise("ZeroDivisionError")
    ELSE FloatV(self.numerator, self.denominator, ~IsPowerOfTwo(self.denominator))

\* .sign(), .floor(), .approximate of an object that is not a
\* Transreal: an int has none of them
NoAttribute == Raise("AttributeError")

\* v.approximate: a Transreal has the field, an int has not
approximate_of(v) ==
    IF IsFailure(v) THEN v
    ELSE IF IsT(v) THEN BoolV(v.approximate)
    ELSE NoAttribute

\* Transreal.__pow__ with its modulo argument (lines 305-308)
pow_reduced(raised, modulo) ==
    IF modulo.tag = "None" THEN raised
    ELSE OpMod(raised, modulo)

\* Transreal.__pow__ with three arguments
pow_mod(self, power, modulo) == pow_reduced(pow(self, power), modulo)

\* ------------------------------------------------------------------ the calculator

VARIABLES
    x,      \* first register: the left operand (self)
    y,      \* second register: the right operand (other, power)
    op,     \* the operation performed last
    res,    \* what it returned or raised
    args    \* the int arguments it was given: <<numerator, denominator, approximate>>
            \* of the constructor, <<decimal_places, 0, FALSE>> of round,
            \* <<modulo, 0, FALSE>> of pow, <<b, 0, FALSE>> of an operator
            \* with the int b on the left

vars == <<x, y, op, res, args>>

NoArgs == <<0, 0, FALSE>>

\* a Transreal small enough to be kept in a register
Fits(v) == IsT(v) /\ iabs(v.numerator) <= MaxMag /\ v.denominator <= MaxMag

Init ==
    /\ x = TransrealInt(0, 1, FALSE)
    /\ y = TransrealInt(1, 1, FALSE)
    /\ op = "init"
    /\ res = TransrealInt(0, 1, FALSE)
    /\ args = NoArgs

\* No result is pending.  A constructor call or an operation replaces res
\* whatever the operation before it was, so each is taken from the states in
\* which there is no result to replace: the same states are reached.
Idle == {"init", "Transreal", "store", "swap"}

\* y = Transreal(n, d, approximate=a) with int n and d
Make(n, d, a) ==
    /\ op \in Idle
    /\ y' = TransrealInt(n, d, a)
    /\ res' = y'
    /\ op' = "Transreal"
    /\ args' = <<n, d, a>>
    /\ UNCHANGED x

\* the result of the last operation becomes the left operand
Store ==
    /\ Fits(res)
    /\ x' = res
    /\ op' = "store"
    /\ args' = NoArgs
    /\ UNCHANGED <<y, res>>

\* the operands change places
Swap ==
    /\ x' = y
    /\ y' = x
    /\ op' = "swap"
    /\ res' = y
    /\ args' = NoArgs

\* an operation named name returning r; one whose integers leave the range
\* is not followed
ApplyArgs(name, r, a) ==
    /\ op \in Idle
    /\ r.tag # "OutOfRange"
    /\ op' = name
    /\ res' = r
    /\ args' = a
    /\ UNCHANGED <<x, y>>

Apply(name, r) == ApplyArgs(name, r, NoArgs)

Add == Apply("add", add(x, y))
Sub == Apply("sub", sub(x, y))
Mul == Apply("mul", mul(x, y))
TrueDiv == Apply("truediv", truediv(x, y))
FloorDiv == Apply("floordiv", floordiv(x, y))
Mod == Apply("mod", mod(x, y))
Divmod == Apply("divmod", divmod(x, y))
Pow == Apply("pow", pow(x, y))
Neg == Apply("neg", neg(x))
Abs == Apply("abs", abs(x))
Floor == Apply("floor", floor(x))
Sign == Apply("sign", sign(x))
Root == Apply("root", root(x, y))

\* b + y, b - y, ... with an int b on the left
Reflected(name, r, b) == ApplyArgs(name, r, <<b, 0, FALSE>>)

RAdd(b) == Reflected("radd", radd(y, IntV(b)), b)
RSub(b) == Reflected("rsub", rsub(y, IntV(b)), b)
RMul(b) == Reflected("rmul", rmul(y, IntV(b)), b)
RTrueDiv(b) == Reflected("rtruediv", rtruediv(y, IntV(b)), b)
RFloorDiv(b) == Reflected("rfloordiv", rfloordiv(y, IntV(b)), b)
RMod(b) == Reflected("rmod", rmod(y, IntV(b)), b)
RPow(b) == Reflected("rpow", rpow(y, IntV(b)), b)
RDivmod(b) == Reflected("rdivmod", rdivmod(y, IntV(b)), b)

\* pow(x, y, modulo) with an int modulo
PowMod ==
    LET raised == pow(x, y)
    IN  \E modulo \in -MaxInt..MaxInt :
            ApplyArgs("pow_mod", pow_reduced(raised, IntV(modulo)), <<modulo, 0, FALSE>>)

Round(decimal_places) == ApplyArgs("round", round(x, decimal_places), <<decimal_places, 0, FALSE>>)

Eq == Apply("eq", eq(x, y))
Ne == Apply("ne", ne(x, y))
Gt == Apply("gt", gt(x, y))
Lt == Apply("lt", lt(x, y))
Ge == Apply("ge", ge(x, y))
Le == Apply("le", le(x, y))

Next ==
    \/ \E n \in -MaxInt..MaxInt, d \in -MaxInt..MaxInt, a \in BOOLEAN : Make(n, d, a)
    \/ Store
    \/ Swap
    \/ Add
    \/ Sub
    \/ Mul
    \/ TrueDiv
    \/ FloorDiv
    \/ Mod
    \/ Divmod
    \/ Pow
    \/ Neg
    \/ Abs
    \/ Floor
    \/ Sign
    \/ Root
    \/ PowMod
    \/ \E decimal_places \in 0..MaxPlaces : Round(decimal_places)
    \/ Eq
    \/ Ne
    \/ Gt
    \/ Lt
    \/ Ge
    \/ Le

Spec == Init /\ [][Next]_vars

\* The calculator with an int on the left of every operator: the right
\* operand y is built by the constructor or is a stored result.
NextReflected ==
    \/ \E n \in -MaxInt..MaxInt, d \in -MaxInt..MaxInt, a \in BOOLEAN : Make(n, d, a)
    \/ Store
    \/ Swap
    \/ \E b \in -MaxInt..MaxInt : RAdd(b)
    \/ \E b \in -MaxInt..MaxInt : RSub(b)
    \/ \E b \in -MaxInt..MaxInt : RMul(b)
    \/ \E b \in -MaxInt..MaxInt : RTrueDiv(b)
    \/ \E b \in -MaxInt..MaxInt : RFloorDiv(b)
    \/ \E b \in -MaxInt..MaxInt : RMod(b)
    \/ \E b \in -MaxInt..MaxInt : RPow(b)
    \/ \E b \in -MaxInt..MaxInt : RDivmod(b)

SpecReflected == Init /\ [][NextReflected]_vars

\* ------------------------------------------------------------------ any operand

\* The calculator with any Python object as the other operand and as a
\* constructor argument: floats, a str and None beside ints and y.
Floats == {FloatV(1, 2, FALSE), FloatV(1, 1, FALSE), FloatV(2, 1, FALSE),
           FloatV(1, 0, FALSE), FloatV(0, 0, FALSE)}

\* objects the constructor does not accept
Uncoercible == {StrV, NoneV}

Foreign == Uncoercible \cup Floats

Ints == {IntV(b) : b \in -1..MaxInt - 1}

Transreals ==
    {TransrealInt(n, d, a) : n \in -1..MaxInt - 1, d \in 0..MaxInt - 1, a \in BOOLEAN}

Objects == Foreign \cup Ints \cup Transreals

\* Transreal(numerator, denominator) on any objects
Construct(numerator, denominator) ==
    /\ op \in Idle
    /\ res' = Transreal(numerator, denominator, FALSE)
    /\ res'.tag # "OutOfRange"
    /\ op' = "construct"
    /\ args' = <<numerator, denominator, FALSE>>
    /\ UNCHANGED <<x, y>>

\* the operands of a binary operator, other on the given side of y
Lhs(other, side) == IF side = "left" THEN other ELSE y
Rhs(other, side) == IF side = "left" THEN y ELSE other

With(name, r, other, side) == ApplyArgs(name, r, <<other, side, FALSE>>)

AddWith(o, s) == With("add_with", OpAdd(Lhs(o, s), Rhs(o, s)), o, s)
SubWith(o, s) == With("sub_with", OpSub(Lhs(o, s), Rhs(o, s)), o, s)
MulWith(o, s) == With("mul_with", OpMul(Lhs(o, s), Rhs(o, s)), o, s)
TrueDivWith(o, s) == With("truediv_with", OpTrueDiv(Lhs(o, s), Rhs(o, s)), o, s)
FloorDivWith(o, s) == With("floordiv_with", OpFloorDiv(Lhs(o, s), Rhs(o, s)), o, s)
ModWith(o, s) == With("mod_with", OpMod(Lhs(o, s), Rhs(o, s)), o, s)
PowWith(o, s) == With("pow_with", OpPow(Lhs(o, s), Rhs(o, s)), o, s)
DivmodWith(o, s) == With("divmod_with", OpDivmod(Lhs(o, s), Rhs(o, s)), o, s)
LtWith(o, s) == With("lt_with", OpLt(Lhs(o, s), Rhs(o, s)), o, s)
GtWith(o, s) == With("gt_with", OpGt(Lhs(o, s), Rhs(o, s)), o, s)
EqWith(o, s) == With("eq_with", OpEq(Lhs(o, s), Rhs(o, s)), o, s)

\* int(y) and float(y)
ToInt == Apply("int", int(y))
ToFloat == Apply("float", float(y))

\* a method or a field of the result res of ** or of root
Then(name, r) ==
    /\ op \in {"pow", "root"}
    /\ ~IsFailure(res)
    /\ op' = name
    /\ res' = r
    /\ args' = <<res, 0, FALSE>>
    /\ UNCHANGED <<x, y>>

ThenSign ==
    IF IsT(res) THEN Then("then_sign", sign(res)) ELSE Then("then_sign", NoAttribute)

ThenFloor ==
    IF IsT(res) THEN Then("then_floor", floor(res)) ELSE Then("then_floor", NoAttribute)

ThenApproximate == Then("then_approximate", approximate_of(res))

Sides == {"left", "right"}

NextObjects ==
    \/ \E n \in -MaxInt..MaxInt, d \in -MaxInt..MaxInt, a \in BOOLEAN : Make(n, d, a)
    \/ \E numerator \in Objects, denominator \in Objects : Construct(numerator, denominator)
    \/ \E o \in Uncoercible, s \in Sides : AddWith(o, s)
    \/ \E o \in Uncoercible, s \in Sides : SubWith(o, s)
    \/ \E o \in Uncoercible, s \in Sides : MulWith(o, s)
    \/ \E o \in Uncoercible, s \in Sides : TrueDivWith(o, s)
    \/ \E o \in Uncoercible, s \in Sides : FloorDivWith(o, s)
    \/ \E o \in Uncoercible, s \in Sides : ModWith(o, s)
    \/ \E o \in Uncoercible, s \in Sides : PowWith(o, s)
    \/ \E o \in Uncoercible, s \in Sides : DivmodWith(o, s)
    \/ \E o \in Uncoercible, s \in Sides : LtWith(o, s)
    \/ \E o \in Uncoercible, s \in Sides : GtWith(o, s)
    \/ \E o \in Uncoercible, s \in Sides : EqWith(o, s)
    \/ ToInt
    \/ ToFloat
    \/ Pow
    \/ Root
    \/ ThenSign
    \/ ThenFloor
    \/ ThenApproximate

SpecObjects == Init /\ [][NextObjects]_vars

\* ------------------------------------------------------------------ properties

Regs == {x, y, res}

\* == on two results, as a condition
Same(a, b) == IsTrue(OpEq(a, b))

IsNullity(v) == IsT(v) /\ v.numerator = 0 /\ v.denominator = 0
IsFinite(v) == IsT(v) /\ v.denominator > 0

\* k divides n
Divides(k, n) == iabs(n) % k = 0

\* the third operand of a law over three values: every Transreal(n, d)
Operands == {TransrealInt(n, d, FALSE) : n \in -MaxInt..MaxInt, d \in -MaxInt..MaxInt}

Canonical(v) ==
    /\ v.denominator >= 0
    /\ v.denominator > 0 =>
           \A k \in 2..v.denominator : ~(Divides(k, v.numerator) /\ Divides(k, v.denominator))
    /\ v.denominator = 0 => v.numerator \in {-1, 0, 1}

\* C1: every Transreal value the constructor (with int arguments) and any
\* sequence of operations produce is in canonical form: its denominator is
\* not negative, numerator and denominator have no common factor above 1
\* when the denominator is positive, and the numerator is -1, 0 or 1 when
\* the denominator is 0.
C1_CanonicalForm == \A v \in Regs : IsT(v) => Canonical(v)

\* C1 case: a negative power of a negative fraction inverts the fraction,
\* and the sign comes back to the numerator.
C1_Witness ==
    /\ op = "pow"
    /\ x.numerator < 0
    /\ y.numerator < 0
    /\ IsT(res)
    /\ res.numerator < 0
    /\ res.denominator > 1

\* C2: no value reachable by constructor calls and operations, root with
\* any power included, is flagged approximate while its denominator is 0.
C2_NonFiniteExact == \A v \in Regs : (IsT(v) /\ v.denominator = 0) => ~v.approximate

\* the numerator and the denominator make(n, d) is to store

Greatest(n, d) ==
    CHOOSE g \in 1..(iabs(n) + iabs(d)) :
        /\ Divides(g, n) /\ Divides(g, d)
        /\ \A k \in (g + 1)..(iabs(n) + iabs(d)) : ~(Divides(k, n) /\ Divides(k, d))

Stored(n, d) ==
    IF d = 0 THEN <<sgn(n), 0>>
    ELSE <<(sgn(d) * n) \div Greatest(n, d), iabs(d) \div Greatest(n, d)>>

\* C3: make(n, d) stores (1,0), (-1,0) or (0,0) by the sign of n when d is 0,
\* and otherwise (s*n/g, |d|/g) with s the sign of d and g the greatest
\* common divisor of |n| and |d|, so make(1,-2) is (-1,2) and make(5,10) is
\* (1,2); and make of the stored numerator and denominator is the same value.
C3_MakeStores ==
    /\ op = "Transreal" =>
           /\ IsT(res)
           /\ <<res.numerator, res.denominator>> = Stored(args[1], args[2])
           /\ TransrealInt(res.numerator, res.denominator, res.approximate) = res
           /\ Same(TransrealInt(res.numerator, res.denominator, FALSE), res)
    /\ TransrealInt(1, -2, FALSE) = T(-1, 2, FALSE)
    /\ TransrealInt(5, 10, FALSE) = T(1, 2, FALSE)
    /\ TransrealInt(1, 0, FALSE) = INFINITY
    /\ TransrealInt(0, 0, FALSE) = NULLITY

\* C3 case: a negative denominator and a common factor at once.
C3_Witness ==
    /\ op = "Transreal"
    /\ args[1] = 2
    /\ args[2] = -2
    /\ res.numerator = -1
    /\ res.denominator = 1

Defined(v) == v.tag \in {"Transreal", "int"}

\* C4: +, -, *, /, // and % of any two values, and ** with a whole power,
\* never fail and yield a value; a/0 is INFINITY for a > 0, -INFINITY for
\* a < 0 and NULLITY for a 0 or NULLITY; 0**0 is NULLITY; INFINITY - INFINITY
\* is NULLITY.
C4_Total ==
    /\ op \in Idle =>
           /\ \A r \in {add(x, y), sub(x, y), mul(x, y), truediv(x, y),
                        floordiv(x, y), mod(x, y)} : IsT(r)
           /\ y.denominator = 1 => Defined(pow(x, y))
    /\ op \in {"add", "sub", "mul", "truediv", "floordiv", "mod"} => IsT(res)
    /\ (op = "pow" /\ y.denominator = 1) => Defined(res)
    /\ (op = "truediv" /\ Same(y, IntV(0))) =>
           /\ IsTrue(gt(x, IntV(0))) => Same(res, INFINITY)
           /\ IsTrue(lt(x, IntV(0))) => Same(res, neg(INFINITY))
           /\ (Same(x, IntV(0)) \/ Same(x, NULLITY)) => Same(res, NULLITY)
    /\ (op = "pow" /\ Same(x, IntV(0)) /\ Same(y, IntV(0))) => Same(res, NULLITY)
    /\ (op = "sub" /\ Same(x, INFINITY) /\ Same(y, INFINITY)) => Same(res, NULLITY)

\* C4 case: a negative value divided by zero.
C4_Witness ==
    /\ op = "truediv"
    /\ Same(y, IntV(0))
    /\ IsFinite(x)
    /\ x.numerator < 0
    /\ Same(res, neg(INFINITY))

\* C5: addition and multiplication are associative and commutative over all
\* values, NULLITY, the infinities, zero and the fractions included:
\* a+(b+c) == (a+b)+c, a+b == b+a, a*(b*c) == (a*b)*c, a*b == b*a.
C5_AssocComm ==
    /\ op = "add" =>
           /\ Same(res, add(y, x))
           /\ \A z \in Operands : Same(add(x, add(y, z)), add(res, z))
    /\ op = "mul" =>
           /\ Same(res, mul(y, x))
           /\ \A z \in Operands : Same(mul(x, mul(y, z)), mul(res, z))

\* C5 case: a sum of two fractions with different denominators.
C5_Witness ==
    /\ op = "add"
    /\ IsFinite(x) /\ IsFinite(y)
    /\ x.denominator # y.denominator
    /\ x.denominator > 1 /\ y.denominator > 1
    /\ Same(res, add(y, x))

\* C6: NULLITY absorbs in addition and in multiplication, on either side.
C6_NullityAbsorbs ==
    (op \in {"add", "mul"} /\ (Same(x, NULLITY) \/ Same(y, NULLITY))) => Same(res, NULLITY)

\* C6 case: infinity plus nullity, where the denominators are equal.
C6_Witness ==
    /\ op = "add"
    /\ Same(x, INFINITY)
    /\ Same(y, NULLITY)
    /\ Same(res, NULLITY)

\* the case the distributive law leaves out
Excepted(a, b, c) == Same(abs(a), INFINITY) /\ ~Same(sign(b), sign(c))

\* C7: a*(b+c) == (a*b)+(a*c) for all a, b, c, except when |a| is INFINITY
\* and the signs of b and c differ.
C7_Distributive ==
    op = "mul" =>
        \A z \in Operands :
            ~Excepted(x, y, z) => Same(mul(x, add(y, z)), add(res, mul(x, z)))

\* C7 case: an infinite a with b and c of one sign.
C7_Witness ==
    /\ op = "mul"
    /\ Same(abs(x), INFINITY)
    /\ IsFinite(y)
    /\ y.numerator > 0
    /\ Same(res, x)

\* C8: a > b exactly when a - b > 0, and exactly when b < a.
C8_OrderBySubtraction ==
    op = "gt" =>
        /\ IsTrue(res) <=> IsTrue(gt(sub(x, y), IntV(0)))
        /\ IsTrue(res) <=> IsTrue(lt(y, x))

\* C8 case: the two infinities, whose denominators are both 0.
C8_Witness ==
    /\ op = "gt"
    /\ Same(x, INFINITY)
    /\ Same(y, neg(INFINITY))
    /\ IsTrue(res)

\* exactly one of three
OneOf(p, q, r) == (p /\ ~q /\ ~r) \/ (~p /\ q /\ ~r) \/ (~p /\ ~q /\ r)

\* C9: the values other than NULLITY are strictly totally ordered: exactly
\* one of a < b, a == b, a > b holds, < is transitive, -INFINITY is below
\* and INFINITY above every finite value, and finite values are ordered as
\* the rationals numerator/denominator.
C9_TotalOrder ==
    (op = "lt" /\ ~IsNullity(x) /\ ~IsNullity(y)) =>
        /\ OneOf(IsTrue(res), Same(x, y), IsTrue(gt(x, y)))
        /\ \A z \in Operands :
               (IsTrue(res) /\ IsTrue(lt(y, z))) => IsTrue(lt(x, z))
        /\ (Same(x, neg(INFINITY)) /\ IsFinite(y)) => IsTrue(res)
        /\ (IsFinite(x) /\ Same(y, INFINITY)) => IsTrue(res)
        /\ (IsFinite(x) /\ IsFinite(y)) =>
               (IsTrue(res) <=> x.numerator * y.denominator < y.numerator * x.denominator)

\* C9 case: two negative fractions with different denominators.
C9_Witness ==
    /\ op = "lt"
    /\ IsFinite(x) /\ IsFinite(y)
    /\ x.numerator < 0 /\ y.numerator < 0
    /\ x.denominator > 1 /\ y.denominator > 1
    /\ x.denominator # y.denominator
    /\ IsTrue(res)

\* C10: a > b and a < b are false whenever a or b is NULLITY; a >= b holds
\* exactly when a > b or a == b, a <= b exactly when a < b or a == b; so
\* NULLITY >= b and NULLITY <= b hold only for b == NULLITY.
C10_NullityUnordered ==
    /\ (op \in {"gt", "lt"} /\ (IsNullity(x) \/ IsNullity(y))) => res = BoolV(FALSE)
    /\ op = "ge" => (IsTrue(res) <=> (IsTrue(gt(x, y)) \/ Same(x, y)))
    /\ op = "le" => (IsTrue(res) <=> (IsTrue(lt(x, y)) \/ Same(x, y)))
    /\ (op \in {"ge", "le"} /\ IsNullity(x)) => (IsTrue(res) <=> IsNullity(y))
    /\ op \in {"gt", "lt", "ge", "le"} => res.tag = "bool"

\* C10 case: NULLITY >= NULLITY, true by == alone.
C10_Witness ==
    /\ op = "ge"
    /\ IsNullity(x)
    /\ IsNullity(y)
    /\ IsTrue(res)
    /\ ~IsTrue(gt(x, y))

\* exactly one of four
OneOfFour(p, q, r, s) ==
    \/ OneOf(p, q, r) /\ ~s
    \/ ~p /\ ~q /\ ~r /\ s

\* C11: quadrachotomy: for every value a exactly one of a < 0, a == 0,
\* a > 0, a == NULLITY is true, and sign(a) is -1, 0, 1 or NULLITY
\* respectively.
C11_Quadrachotomy ==
    op = "sign" =>
        /\ OneOfFour(IsTrue(lt(x, IntV(0))), Same(x, IntV(0)),
                     IsTrue(gt(x, IntV(0))), Same(x, NULLITY))
        /\ IsT(res)
        /\ IsTrue(lt(x, IntV(0))) => Same(res, IntV(-1))
        /\ Same(x, IntV(0)) => Same(res, IntV(0))
        /\ IsTrue(gt(x, IntV(0))) => Same(res, IntV(1))
        /\ Same(x, NULLITY) => Same(res, NULLITY)

\* C11 case: the sign of nullity, the fourth way.
C11_Witness ==
    /\ op = "sign"
    /\ IsNullity(x)
    /\ IsNullity(res)

\* C12: reciprocal: 0 ** -1 == INFINITY, INFINITY ** -1 == 0,
\* (-INFINITY) ** -1 == 0, NULLITY ** -1 == NULLITY; (a ** -1) ** -1 == a
\* for every a other than -INFINITY; and a / b == a * (b ** -1) for all a, b.
C12_Reciprocal ==
    /\ (op = "pow" /\ Same(y, IntV(-1))) =>
           /\ Same(x, IntV(0)) => Same(res, INFINITY)
           /\ Same(x, INFINITY) => Same(res, IntV(0))
           /\ Same(x, neg(INFINITY)) => Same(res, IntV(0))
           /\ Same(x, NULLITY) => Same(res, NULLITY)
           /\ ~Same(x, neg(INFINITY)) => Same(pow(res, IntV(-1)), x)
    /\ op = "truediv" => Same(res, mul(x, pow(y, IntV(-1))))

\* C12 case: the reciprocal of a negative fraction, whose sign moves from
\* the denominator back to the numerator.
C12_Witness ==
    /\ op = "pow"
    /\ Same(y, IntV(-1))
    /\ IsFinite(x)
    /\ x.numerator < 0
    /\ x.denominator > 1
    /\ IsFinite(res)
    /\ res.numerator = -x.denominator
    /\ Same(pow(res, IntV(-1)), x)

\* C13: infinity arithmetic: a + INFINITY == INFINITY for every a other
\* than -INFINITY and NULLITY; for every finite a, a - INFINITY == -INFINITY,
\* a - a == 0 and, a not being 0, a / a == 1; INFINITY - INFINITY == NULLITY
\* and INFINITY * 0 == NULLITY; INFINITY * a == INFINITY exactly when a > 0
\* and INFINITY * a == -INFINITY exactly when a < 0.
C13_InfinityArithmetic ==
    /\ (op = "add" /\ Same(y, INFINITY) /\ ~Same(x, neg(INFINITY)) /\ ~Same(x, NULLITY)) =>
           Same(res, INFINITY)
    /\ (op = "sub" /\ IsFinite(x) /\ Same(y, INFINITY)) => Same(res, neg(INFINITY))
    /\ (op = "sub" /\ IsFinite(x) /\ Same(x, y)) => Same(res, IntV(0))
    /\ (op = "truediv" /\ IsFinite(x) /\ Same(x, y) /\ ~Same(x, IntV(0))) =>
           Same(res, IntV(1))
    /\ (op = "sub" /\ Same(x, INFINITY) /\ Same(y, INFINITY)) => Same(res, NULLITY)
    /\ (op = "mul" /\ Same(x, INFINITY)) =>
           /\ Same(y, IntV(0)) => Same(res, NULLITY)
           /\ Same(res, INFINITY) <=> IsTrue(gt(y, IntV(0)))
           /\ Same(res, neg(INFINITY)) <=> IsTrue(lt(y, IntV(0)))

\* C13 case: infinity taken from infinity.
C13_Witness ==
    /\ op = "sub"
    /\ Same(x, INFINITY)
    /\ Same(y, INFINITY)
    /\ IsNullity(res)

\* |b| against 1, from the fields of b
AbsBelowOne(b) == IsFinite(b) /\ iabs(b.numerator) < b.denominator
AbsOne(b) == IsFinite(b) /\ iabs(b.numerator) = b.denominator
AbsAboveOne(b) == IsT(b) /\ iabs(b.numerator) > b.denominator

C15_RootTotal == op = "root" => Defined(res)

\* the operands with which root reaches its loop: none of the special cases
\* of lines 432-448
Iterated(v, p) == IsFinite(v) /\ v.numerator >= 0 /\ IsFinite(p)

\* C16 as claimed: for every value v and power p, the result r = v.root(p)
\* has approximate == false exactly when r ** p == v, the special-case
\* results and approximate inputs included.
C16_FlagIffReproduces ==
    (op = "root" /\ IsT(res)) => (~res.approximate <=> Same(pow(res, y), x))

\* C16 amended: when root returns r from its loop (v finite and not
\* negative, p finite), r is approximate whenever r ** p != v and whenever v
\* or p is approximate, and r is exact when r ** p == v with v and p exact
\* and p a whole number; a special-case result that is a Transreal is exact
\* whether or not r ** p == v.
C16_FlagFromLoop ==
    (op = "root" /\ IsT(res)) =>
        IF Iterated(x, y)
        THEN /\ ~Same(pow(res, y), x) => res.approximate
             /\ (x.approximate \/ y.approximate) => res.approximate
             /\ (Same(pow(res, y), x) /\ ~x.approximate /\ ~y.approximate
                    /\ y.denominator = 1) => ~res.approximate
        ELSE ~res.approximate

\* C16 case: an approximate 4 has the square root 2, which reproduces it
\* and stays approximate.
C16_Witness ==
    /\ op = "root"
    /\ Same(x, IntV(4)) /\ x.approximate
    /\ Same(y, IntV(2)) /\ ~y.approximate
    /\ Same(res, IntV(2))
    /\ Same(pow(res, y), x)
    /\ res.approximate

\* C17: root special cases, decided before any iteration: a negative base
\* (-INFINITY included) gives NULLITY; a NULLITY base or power gives
\* NULLITY; an INFINITY base gives NULLITY if the power is +/-INFINITY,
\* -INFINITY if the power is negative, and INFINITY otherwise; a finite
\* base that is not negative gives 0 with the power +/-INFINITY.
C17_RootSpecialCases ==
    op = "root" =>
        IF x.numerator < 0 THEN res = NULLITY
        ELSE IF IsNullity(x) \/ IsNullity(y) THEN res = NULLITY
        ELSE IF x.denominator = 0
        THEN IF y.denominator = 0 THEN res = NULLITY
             ELSE IF y.numerator < 0 THEN res = neg(INFINITY)
             ELSE res = INFINITY
        ELSE y.denominator = 0 => Same(res, IntV(0))

\* C17 case: a negative root of infinity.
C17_Witness ==
    /\ op = "root"
    /\ Same(x, INFINITY)
    /\ IsFinite(y)
    /\ y.numerator < 0
    /\ Same(res, neg(INFINITY))

\* C18: exact roots are detected: for every integer n >= 0 and every integer
\* k >= 1, make(n**k).root(k) == n with approximate == false.
C18_ExactRoots ==
    (op = "root" /\ x.denominator = 1 /\ ~x.approximate
                /\ y.denominator = 1 /\ ~y.approximate /\ y.numerator >= 1) =>
        \A n \in 0..MaxMag :
            ipow(n, y.numerator) = x.numerator => (Same(res, IntV(n)) /\ ~res.approximate)

\* q is the largest integer <= n/d, for d > 0
IsFloorOf(q, n, d) == q * d <= n /\ n < (q + 1) * d

\* C19: a // b == floor(a / b), a % b == a - b*(a // b) and divmod(a, b) ==
\* (a // b, a % b) for all a, b, where floor of a finite value is the
\* largest integer <= it and floor is the identity on non-finite values; so
\* for finite a and finite b other than 0, a == b*(a // b) + (a % b) and
\* a % b lies in [0, b) for b > 0 and in (b, 0] for b < 0.
C19_FloorDivMod ==
    /\ op = "floor" =>
           IF IsFinite(x)
           THEN IsT(res) /\ res.denominator = 1
                /\ IsFloorOf(res.numerator, x.numerator, x.denominator)
           ELSE res = x
    /\ op = "floordiv" =>
           /\ Same(res, floor(truediv(x, y)))
           /\ (IsFinite(x) /\ IsFinite(y) /\ y.numerator # 0) =>
                  /\ IsT(res) /\ res.denominator = 1
                  /\ IsFloorOf(res.numerator,
                               x.numerator * y.denominator * sgn(y.numerator),
                               x.denominator * iabs(y.numerator))
    /\ op = "mod" =>
           /\ Same(res, sub(x, mul(y, floordiv(x, y))))
           /\ (IsFinite(x) /\ IsFinite(y) /\ y.numerator # 0) =>
                  /\ Same(x, add(mul(y, floordiv(x, y)), res))
                  /\ IsFinite(res)
                  /\ y.numerator > 0 =>
                         /\ res.numerator >= 0
                         /\ res.numerator * y.denominator < y.numerator * res.denominator
                  /\ y.numerator < 0 =>
                         /\ res.numerator <= 0
                         /\ res.numerator * y.denominator > y.numerator * res.denominator
    /\ op = "divmod" =>
           /\ res.tag = "tuple"
           /\ Same(res.first, floordiv(x, y))
           /\ Same(res.second, mod(x, y))

\* C19 case: divmod of a negative fraction by a positive one, where floor
\* and truncation differ.
C19_Witness ==
    /\ op = "divmod"
    /\ IsFinite(x) /\ x.numerator < 0 /\ x.denominator > 1
    /\ IsFinite(y) /\ y.numerator > 0 /\ y.denominator > 1
    /\ res.tag = "tuple"
    /\ res.first.numerator < 0
    /\ res.second.numerator > 0

\* make(b) for the int b on the left of the operator
Left == TransrealInt(args[1], 1, FALSE)

\* C20: reversed operands are supported symmetrically: for every integer b
\* and value a, each of b + a, b - a, b * a, b / a, b // a, b % a, b ** a and
\* divmod(b, a) is defined and equals the same operation on make(b) and a.
C20_ReversedOperands ==
    /\ op = "radd" => Same(res, add(Left, y))
    /\ op = "rsub" => Same(res, sub(Left, y))
    /\ op = "rmul" => Same(res, mul(Left, y))
    /\ op = "rtruediv" => Same(res, truediv(Left, y))
    /\ op = "rfloordiv" => Same(res, floordiv(Left, y))
    /\ op = "rmod" => Same(res, mod(Left, y))
    /\ op = "rpow" => Same(res, pow(Left, y))
    /\ op = "rdivmod" =>
           /\ res.tag = "tuple"
           /\ Same(res.first, floordiv(Left, y))
           /\ Same(res.second, mod(Left, y))

\* the operators with an operand that cannot be coerced, and those of them
\* that raise
WithOps == {"add_with", "sub_with", "mul_with", "truediv_with", "floordiv_with",
            "mod_with", "pow_with", "divmod_with", "lt_with", "gt_with", "eq_with"}

TypeMismatch == Raise("TypeError")

\* the operation with an uncoercible operand fails with TypeError, and == with
\* one is False
OperandRejected ==
    /\ op \in WithOps \ {"eq_with"} => res = TypeMismatch
    /\ op = "eq_with" => res = BoolV(FALSE)

\* C21 as stated: an operand that cannot be coerced, in either position,
\* makes + - * / // % ** divmod < > fail with TypeError and == report False,
\* and construction with a denominator that is neither an int nor a Transreal
\* fails with TypeError.
C21_CoercionFailure ==
    /\ OperandRejected
    /\ op = "construct" /\ ~IsInt(args[2]) /\ ~IsT(args[2]) => res = TypeMismatch

\* C21 amended: the same operators fail with TypeError and == reports False;
\* construction with a denominator that is neither an int nor a Transreal
\* fails with TypeError when the numerator is not a Transreal, or when the
\* denominator cannot be coerced (a Transreal numerator is divided by a
\* float denominator).
C21_CoercionFailureTyped ==
    /\ OperandRejected
    /\ op = "construct" /\ ~IsInt(args[2]) /\ ~IsT(args[2])
          /\ (~IsT(args[1]) \/ args[2] \in Uncoercible)
       => res = TypeMismatch

\* a float denominator was refused for an int numerator
C21_Witness ==
    /\ op = "construct"
    /\ IsInt(args[1])
    /\ IsFloat(args[2])
    /\ res = TypeMismatch

\* a Transreal or an int
Numeric(o) == IsT(o) \/ IsInt(o)

\* the operation performed last had Transreal and int operands only
OnNumbers ==
    \/ op \in {"Transreal", "int", "float", "pow", "root",
                "then_sign", "then_floor", "then_approximate"}
    \/ op = "construct" /\ Numeric(args[1]) /\ Numeric(args[2])

\* C22: TypeError is the only failure an operation can signal: construction,
\* **, root, the conversions to int and to float, and sign, floor and field
\* access on the result of ** or root, applied to Transreal and int operands,
\* return a value or raise TypeError, never another exception.
C22_OnlyTypeMismatch ==
    OnNumbers => res.tag \notin Exceptions \ {"TypeError"}

\* the constructor was given a Transreal and a Transreal or an int
OnTransreal ==
    /\ op = "construct"
    /\ Numeric(args[1]) /\ Numeric(args[2])
    /\ IsT(args[1]) \/ IsT(args[2])

\* the flag of Transreal(numerator, denominator) by the quotient of the two
QuotientFlag(numerator, denominator, quotient) ==
    IF IsT(numerator) /\ Same(denominator, IntV(1)) THEN numerator.approximate
    ELSE IF IsFinite(quotient) THEN quotient.approximate
    ELSE FALSE

\* the constructor returned the quotient, with the flag of QuotientFlag
IsQuotient(numerator, denominator, quotient) ==
    /\ IsT(res)
    /\ IsT(quotient)
    /\ res.numerator = quotient.numerator
    /\ res.denominator = quotient.denominator
    /\ res.approximate = QuotientFlag(numerator, denominator, quotient)

\* C23: when either constructor argument is a Transreal and the other a
\* Transreal or an int, construction succeeds and the result equals
\* numerator / denominator; it has the numerator's own flag when the
\* denominator is 1, is exact when the quotient is infinite or nullity, and has
\* the quotient's flag otherwise.
C23_ConstructDivides ==
    OnTransreal => IsQuotient(args[1], args[2], OpTrueDiv(args[1], args[2]))

\* C24: NULLITY is absorbing for **: NULLITY ** e == NULLITY for every
\* exponent e, INFINITY and -INFINITY included, and b ** NULLITY == NULLITY
\* for every base b.
C24_NullityAbsorbsPow ==
    op = "pow" /\ (IsNullity(x) \/ IsNullity(y)) => Same(res, NULLITY)

====
